---- MODULE Spec2Model ----
(***************************************************************************)
(* A model of the SLIM local/global solver of include/igl/slim.cpp:        *)
(* the SLIMData state, WeightedGlobalLocal's steps and the two entry       *)
(* points igl::slim_precompute and igl::slim_solve.                        *)
(*                                                                         *)
(* Numbers.  A double is modelled as an extended rational <<n, d>> in      *)
(* lowest terms with d >= 0: d > 0 is the finite value n/d, <<1,0>> is     *)
(* +Inf, <<-1,0>> is -Inf and <<0,0>> is NaN.  +, -, *, / are exact on     *)
(* finite values and follow IEEE-754 on the special values (0/0 = NaN,     *)
(* x/0 = Inf, Inf - Inf = NaN, 0 * Inf = NaN, comparisons with NaN are     *)
(* false).  sqrt, the cube root, log and exp are exact where the result    *)
(* is rational (sqrt(1) = 1, log(1) = 0, exp(0) = 1, ...) and otherwise    *)
(* rounded to a rational approximation.                                    *)
(***************************************************************************)
EXTENDS Integers, Sequences, FiniteSets, TLC

\* Denominator of the grid that irrational square and cube roots are rounded to.
Prec == 5

----------------------------------------------------------------------------
(* Extended rational arithmetic (the model of double).                     *)

RECURSIVE Gcd(_, _)
Gcd(a, b) == IF b = 0 THEN a ELSE Gcd(b, a % b)

AbsInt(a) == IF a < 0 THEN -a ELSE a

SgnInt(a) == IF a < 0 THEN -1 ELSE IF a > 0 THEN 1 ELSE 0

\* n/d in lowest terms, d >= 0; n/0 is an infinity or NaN.
Norm(n, d) ==
    IF d = 0 THEN <<SgnInt(n), 0>>
    ELSE LET g == Gcd(AbsInt(n), AbsInt(d))
             s == IF d < 0 THEN -1 ELSE 1
         IN  <<s * (n \div g), s * (d \div g)>>

NaN == <<0, 0>>
PosInf == <<1, 0>>
Zero == <<0, 1>>
One == <<1, 1>>
Two == <<2, 1>>
Half == <<1, 2>>

Int2R(k) == <<k, 1>>
Frac(n, d) == Norm(n, d)

IsNaN(x) == x = NaN
IsFinite(x) == x[2] > 0

Neg(x) == <<-x[1], x[2]>>

Add(x, y) ==
    IF x[2] = 0 \/ y[2] = 0
    THEN IF IsNaN(x) \/ IsNaN(y) THEN NaN
         ELSE IF x[2] = 0 /\ y[2] = 0
              THEN (IF x[1] = y[1] THEN x ELSE NaN)
              ELSE (IF x[2] = 0 THEN x ELSE y)
    ELSE LET g == Gcd(x[2], y[2])
         IN  Norm(x[1] * (y[2] \div g) + y[1] * (x[2] \div g), (x[2] \div g) * y[2])

Sub(x, y) == Add(x, Neg(y))

\* Cross-cancelled so that intermediate products stay small.
Mul(x, y) ==
    IF x[2] = 0 \/ y[2] = 0
    THEN Norm(x[1] * y[1], 0)
    ELSE LET g1 == Gcd(AbsInt(x[1]), y[2])
             g2 == Gcd(AbsInt(y[1]), x[2])
             a == IF g1 = 0 THEN 1 ELSE g1
             b == IF g2 = 0 THEN 1 ELSE g2
         IN  Norm((x[1] \div a) * (y[1] \div b), (x[2] \div b) * (y[2] \div a))

\* 1/x; 1/0 = +Inf, 1/Inf = 0, 1/NaN = NaN.
Inv(x) == IF x[1] < 0 THEN <<-x[2], -x[1]>> ELSE <<x[2], x[1]>>

Div(x, y) == Mul(x, Inv(y))

AbsR(x) == <<AbsInt(x[1]), x[2]>>

\* a/b < c/d for 0 <= a/b, c/d with b, d > 0, by continued fractions (no products).
RECURSIVE LtPos(_, _, _, _)
LtPos(a, b, c, d) ==
    LET qa == a \div b
        qc == c \div d
        ra == a % b
        rc == c % d
    IN  IF qa # qc THEN qa < qc
        ELSE IF rc = 0 THEN FALSE
        ELSE IF ra = 0 THEN TRUE
        ELSE LtPos(d, rc, b, ra)

\* x < y on doubles: false when either is NaN.
Lt(x, y) ==
    IF IsNaN(x) \/ IsNaN(y) THEN FALSE
    ELSE IF x[2] = 0 \/ y[2] = 0
         THEN IF x[2] = 0 /\ y[2] = 0 THEN x[1] < y[1]
              ELSE IF x[2] = 0 THEN x[1] < 0 ELSE y[1] > 0
    ELSE IF x[1] < 0 /\ y[1] >= 0 THEN TRUE
    ELSE IF x[1] >= 0 /\ y[1] < 0 THEN FALSE
    ELSE IF x[1] >= 0 THEN LtPos(x[1], x[2], y[1], y[2])
    ELSE LtPos(-y[1], y[2], -x[1], x[2])

\* x == y on doubles: false when either is NaN.
EqR(x, y) == ~IsNaN(x) /\ ~IsNaN(y) /\ x = y

Le(x, y) == Lt(x, y) \/ EqR(x, y)

Sq(x) == Mul(x, x)

RECURSIVE ISqrtIn(_, _, _)
\* Largest k with k * k <= m, given lo * lo <= m < hi * hi, by bisection.
ISqrtIn(m, lo, hi) ==
    IF hi - lo <= 1 THEN lo
    ELSE IF ((lo + hi) \div 2) * ((lo + hi) \div 2) <= m
         THEN ISqrtIn(m, (lo + hi) \div 2, hi)
         ELSE ISqrtIn(m, lo, (lo + hi) \div 2)

\* Largest k with k * k <= m, for 0 <= m < 2^31.
ISqrt(m) == ISqrtIn(m, 0, IF m < 46340 THEN m + 1 ELSE 46341)

RECURSIVE ICbrtIn(_, _, _)
\* Largest k with k * k * k <= m, given lo^3 <= m < hi^3, by bisection.
ICbrtIn(m, lo, hi) ==
    IF hi - lo <= 1 THEN lo
    ELSE IF ((lo + hi) \div 2) * ((lo + hi) \div 2) * ((lo + hi) \div 2) <= m
         THEN ICbrtIn(m, (lo + hi) \div 2, hi)
         ELSE ICbrtIn(m, lo, (lo + hi) \div 2)

\* Largest k with k * k * k <= m, for 0 <= m < 2^31.
ICbrt(m) == ICbrtIn(m, 0, IF m < 1290 THEN m + 1 ELSE 1291)

\* floor(n * g / d) for n >= 0 and d, g > 0, without forming n * g.
FloorMulDiv(n, d, g) == (n \div d) * g + ((n % d) * g) \div d

\* A finite x >= 0 rounded down to a multiple of 1 / (Prec * Prec).
RoundDown(x) == Norm(FloorMulDiv(x[1], x[2], Prec * Prec), Prec * Prec)

\* sqrt: NaN for a negative argument, exact on rational squares, else rounded
\* down to a multiple of 1/Prec.
Sqrt(x) ==
    IF IsNaN(x) \/ x[1] < 0 THEN NaN
    ELSE IF x[2] = 0 THEN x
    ELSE LET rn == ISqrt(x[1])
             rd == ISqrt(x[2])
         IN  IF rn * rn = x[1] /\ rd * rd = x[2] THEN Norm(rn, rd)
             ELSE Norm(ISqrt(FloorMulDiv(x[1], x[2], Prec * Prec)), Prec)

\* Cube root of a non-negative double, exact on rational cubes, else rounded
\* down to a multiple of 1/Prec.
Cbrt(x) ==
    IF x[2] = 0 THEN x
    ELSE LET rn == ICbrt(x[1])
             rd == ICbrt(x[2])
         IN  IF rn * rn * rn = x[1] /\ rd * rd * rd = x[2] THEN Norm(rn, rd)
             ELSE Norm(ICbrt(FloorMulDiv(x[1], x[2], Prec * Prec * Prec)), Prec)

\* pow(x, 2./3.) and pow(x, 5./3.): NaN for a negative base.
Pow23(x) == IF IsNaN(x) \/ x[1] < 0 THEN NaN ELSE Sq(Cbrt(x))

Pow53(x) ==
    IF IsNaN(x) \/ x[1] < 0 THEN NaN
    ELSE LET c == Cbrt(x) IN Mul(Mul(Sq(c), Sq(c)), c)

\* pow(x, -2) and pow(x, -3).
PowM2(x) == Inv(Sq(x))

PowM3(x) == Inv(Mul(Sq(x), x))

\* log: NaN for a negative argument, -Inf at 0, 0 at 1; elsewhere the first
\* two terms of 2 * atanh((x - 1) / (x + 1)).
Log(x) ==
    IF IsNaN(x) \/ x[1] < 0 THEN NaN
    ELSE IF x[2] = 0 THEN x
    ELSE IF x[1] = 0 THEN <<-1, 0>>
    ELSE LET z == Div(Sub(x, One), Add(x, One))
         IN  Mul(Two, Add(z, Div(Mul(z, Sq(z)), Int2R(3))))

\* exp for a finite x >= 0: 1 + x + x^2/2 + x^3/6 rounded down to the grid,
\* so exp(0) = 1 and exp(x) >= 1.
ExpPos(x) ==
    LET r == RoundDown(x)
    IN  RoundDown(Add(Add(One, r), Add(Div(Sq(r), Two), Div(Mul(r, Sq(r)), Int2R(6)))))

\* exp: always positive, exp(-x) = 1 / exp(x).
Exp(x) ==
    IF IsNaN(x) THEN NaN
    ELSE IF x[2] = 0 THEN (IF x[1] > 0 THEN x ELSE Zero)
    ELSE IF x[1] < 0 THEN Inv(ExpPos(Neg(x)))
    ELSE ExpPos(x)

----------------------------------------------------------------------------
(* Dense vectors and matrices, indexed from 0 as in the source.            *)

\* A 0-based vector from a tuple.
Vec(t) == [i \in 0..(Len(t) - 1) |-> t[i + 1]]

\* A 0-based matrix from a tuple of rows.
Mat(rows) == [i \in 0..(Len(rows) - 1) |-> Vec(rows[i + 1])]

RECURSIVE SumTo(_, _)
\* f[0] + ... + f[n - 1] on doubles.
SumTo(f, n) == IF n = 0 THEN Zero ELSE Add(SumTo(f, n - 1), f[n - 1])

\* Product of two n x n matrices.
MatMul(A, B, n) ==
    [i \in 0..(n - 1) |-> [j \in 0..(n - 1) |->
        SumTo([k \in 0..(n - 1) |-> Mul(A[i][k], B[k][j])], n)]]

Transpose(A, n) == [i \in 0..(n - 1) |-> [j \in 0..(n - 1) |-> A[j][i]]]

\* v.asDiagonal()
AsDiagonal(v, n) ==
    [i \in 0..(n - 1) |-> [j \in 0..(n - 1) |-> IF i = j THEN v[i] ELSE Zero]]

----------------------------------------------------------------------------
(* The energy kinds of SLIMData::SLIM_ENERGY.                              *)

SLIM_ENERGY ==
    {"ARAP", "LOG_ARAP", "SYMMETRIC_DIRICHLET", "CONFORMAL", "EXP_CONFORMAL",
     "EXP_SYMMETRIC_DIRICHLET"}

\* const double eps = 1e-8 of the local step.
eps == <<1, 100000000>>

\* data.proximal_p = 0.0001
PROXIMAL_P == <<1, 10000>>

\* data.exp_factor = 1.0
EXP_FACTOR == <<1, 1>>

----------------------------------------------------------------------------
(* igl::polar_svd.  The decomposition is a collaborator of this file; it   *)
(* is modelled by its contract on a finite catalogue of decompositions     *)
(* with rational factors: ji = ui * diag(sing) * vi^T with ui, vi          *)
(* rotations, |sing| in decreasing order, the last singular value          *)
(* negative for an inverted element, and ri = ui * vi^T.                   *)

\* The rotation by the angle of the 3-4-5 triangle.
Rot2 == Mat(<< <<Frac(3, 5), Frac(-4, 5)>>, <<Frac(4, 5), Frac(3, 5)>> >>)

Id2 == Mat(<< <<One, Zero>>, <<Zero, One>> >>)

\* A rotation about the axis (1,1,1) with rational entries.
Rot3 ==
    Mat(<< <<Frac(2, 3), Frac(-1, 3), Frac(2, 3)>>,
           <<Frac(2, 3), Frac(2, 3), Frac(-1, 3)>>,
           <<Frac(-1, 3), Frac(2, 3), Frac(2, 3)>> >>)

Id3 == Mat(<< <<One, Zero, Zero>>, <<Zero, One, Zero>>, <<Zero, Zero, One>> >>)

\* Singular values of the catalogue: undeformed, stretched along one axis,
\* uniformly scaled, stretched and squeezed, and inverted.
Sing2 ==
    {Vec(<<One, One>>), Vec(<<Two, One>>), Vec(<<Two, Two>>), Vec(<<Two, Half>>),
     Vec(<<Two, Neg(One)>>)}

Sing3 ==
    {Vec(<<One, One, One>>), Vec(<<Two, One, One>>), Vec(<<Two, Two, Two>>),
     Vec(<<Two, One, Half>>), Vec(<<Two, One, Neg(One)>>)}

SvdCatalogue(dim) ==
    IF dim = 2
    THEN [ui : {Id2, Rot2}, sing : Sing2, vi : {Id2}]
    ELSE [ui : {Id3, Rot3}, sing : Sing3, vi : {Id3}]

\* ui * diag(sing) * vi^T
Recompose(t, dim) ==
    MatMul(MatMul(t.ui, AsDiagonal(t.sing, dim), dim), Transpose(t.vi, dim), dim)

\* The Jacobians the catalogue decomposes.
JacobianCatalogue(dim) == {Recompose(t, dim) : t \in SvdCatalogue(dim)}

\* The outputs of igl::polar_svd for the decomposition t of ji: ri = ui * vi^T.
svd_outputs(t, dim) ==
    [ji |-> Recompose(t, dim), ri |-> MatMul(t.ui, Transpose(t.vi, dim), dim),
     ui |-> t.ui, sing |-> t.sing, vi |-> t.vi]

\* The catalogue as a table from ji to the outputs.
Decompositions2 == {svd_outputs(t, 2) : t \in SvdCatalogue(2)}
Decompositions3 == {svd_outputs(t, 3) : t \in SvdCatalogue(3)}

\* igl::polar_svd(ji, ri, ti, ui, sing, vi)
polar_svd(ji, dim) ==
    CHOOSE r \in (IF dim = 2 THEN Decompositions2 ELSE Decompositions3) : r.ji = ji

----------------------------------------------------------------------------
(* WeightedGlobalLocal::update_weights_and_closest_rotations, per element. *)

\* 2 * (s - pow(s, -3))
g_symmetric_dirichlet(s) == Mul(Two, Sub(s, PowM3(s)))

\* 2 * (log(s) / s)
g_log_arap(s) == Mul(Two, Div(Log(s), s))

\* sqrt(s_g / (2 * (s - s_min)))
sing_new(s_g, s, s_min) == Sqrt(Div(s_g, Mul(Two, Sub(s, s_min))))

\* m_sing_new as the switch of the 2-D branch leaves it.
m_sing_new_2d(slim_energy, s1, s2, exp_f) ==
    CASE slim_energy = "ARAP" -> Vec(<<One, One>>)
      [] slim_energy = "SYMMETRIC_DIRICHLET" ->
            Vec(<<sing_new(g_symmetric_dirichlet(s1), s1, One),
                  sing_new(g_symmetric_dirichlet(s2), s2, One)>>)
      [] slim_energy = "LOG_ARAP" ->
            Vec(<<sing_new(g_log_arap(s1), s1, One),
                  sing_new(g_log_arap(s2), s2, One)>>)
      [] slim_energy = "CONFORMAL" ->
            LET s1_g == Sub(Inv(Mul(Two, s2)), Div(s2, Mul(Two, Sq(s1))))
                s2_g == Sub(Inv(Mul(Two, s1)), Div(s1, Mul(Two, Sq(s2))))
                geo_avg == Sqrt(Mul(s1, s2))
            IN  Vec(<<sing_new(s1_g, s1, geo_avg), sing_new(s2_g, s2, geo_avg)>>)
      [] slim_energy = "EXP_CONFORMAL" ->
            LET in_exp == Mul(exp_f, Div(Add(Sq(s1), Sq(s2)), Mul(Mul(Two, s1), s2)))
                exp_thing == Exp(in_exp)
                s1_g == Mul(g_symmetric_dirichlet(s1), Mul(exp_thing, exp_f))
                s2_g == Mul(g_symmetric_dirichlet(s2), Mul(exp_thing, exp_f))
            IN  Vec(<<sing_new(s1_g, s1, One), sing_new(s2_g, s2, One)>>)
      [] slim_energy = "EXP_SYMMETRIC_DIRICHLET" ->
            LET in_exp ==
                    Mul(exp_f, Add(Add(Sq(s1), PowM2(s1)), Add(Sq(s2), PowM2(s2))))
                exp_thing == Exp(in_exp)
                s1_g == Mul(g_symmetric_dirichlet(s1), Mul(exp_thing, exp_f))
                s2_g == Mul(g_symmetric_dirichlet(s2), Mul(exp_thing, exp_f))
            IN  Vec(<<sing_new(s1_g, s1, One), sing_new(s2_g, s2, One)>>)

\* closest_sing_vec of the 2-D branch where the switch rebuilds ri, else <<>>.
closest_sing_vec_2d(slim_energy, s1, s2) ==
    IF slim_energy = "CONFORMAL"
    THEN LET geo_avg == Sqrt(Mul(s1, s2)) IN Vec(<<geo_avg, geo_avg>>)
    ELSE <<>>

\* (-2 * sb * sc * (pow(sb, 2) + pow(sc, 2) - 2 * pow(sa, 2))) / common_div
g_conformal_3d(sa, sb, sc, common_div) ==
    Div(Mul(Mul(Mul(Int2R(-2), sb), sc),
            Sub(Add(Sq(sb), Sq(sc)), Mul(Two, Sq(sa)))),
        common_div)

\* sqrt(pow(s1, 2) + pow(s3, 2)) / sqrt_2
closest_s_3d(s1, s3) == Div(Sqrt(Add(Sq(s1), Sq(s3))), Sqrt(Two))

\* m_sing_new as the switch of the 3-D branch leaves it.
m_sing_new_3d(slim_energy, s1, s2, s3, exp_f) ==
    CASE slim_energy = "ARAP" -> Vec(<<One, One, One>>)
      [] slim_energy = "LOG_ARAP" ->
            Vec(<<sing_new(g_log_arap(s1), s1, One),
                  sing_new(g_log_arap(s2), s2, One),
                  sing_new(g_log_arap(s3), s3, One)>>)
      [] slim_energy = "SYMMETRIC_DIRICHLET" ->
            Vec(<<sing_new(g_symmetric_dirichlet(s1), s1, One),
                  sing_new(g_symmetric_dirichlet(s2), s2, One),
                  sing_new(g_symmetric_dirichlet(s3), s3, One)>>)
      [] slim_energy = "EXP_SYMMETRIC_DIRICHLET" ->
            LET in_exp ==
                    Mul(exp_f,
                        Add(Add(Add(Sq(s1), PowM2(s1)), Add(Sq(s2), PowM2(s2))),
                            Add(Sq(s3), PowM2(s3))))
                exp_thing == Exp(in_exp)
                s1_g == Mul(g_symmetric_dirichlet(s1), Mul(exp_thing, exp_f))
                s2_g == Mul(g_symmetric_dirichlet(s2), Mul(exp_thing, exp_f))
                s3_g == Mul(g_symmetric_dirichlet(s3), Mul(exp_thing, exp_f))
            IN  Vec(<<sing_new(s1_g, s1, One), sing_new(s2_g, s2, One),
                      sing_new(s3_g, s3, One)>>)
      [] slim_energy = "CONFORMAL" ->
            LET common_div == Mul(Int2R(9), Pow53(Mul(Mul(s1, s2), s3)))
                closest_s == closest_s_3d(s1, s3)
            IN  Vec(<<sing_new(g_conformal_3d(s1, s2, s3, common_div), s1, closest_s),
                      sing_new(g_conformal_3d(s2, s1, s3, common_div), s2, closest_s),
                      sing_new(g_conformal_3d(s3, s1, s2, common_div), s3, closest_s)>>)
      [] slim_energy = "EXP_CONFORMAL" ->
            LET common_div == Mul(Int2R(9), Pow53(Mul(Mul(s1, s2), s3)))
                in_exp ==
                    Mul(exp_f,
                        Div(Add(Add(Sq(s1), Sq(s2)), Sq(s3)),
                            Mul(Int2R(3), Pow23(Mul(Mul(s1, s2), s3)))))
                exp_thing == Exp(in_exp)
                closest_s == closest_s_3d(s1, s3)
                s1_g == Mul(g_conformal_3d(s1, s2, s3, common_div), Mul(exp_thing, exp_f))
                s2_g == Mul(g_conformal_3d(s2, s1, s3, common_div), Mul(exp_thing, exp_f))
                s3_g == Mul(g_conformal_3d(s3, s1, s2, common_div), Mul(exp_thing, exp_f))
            IN  Vec(<<sing_new(s1_g, s1, closest_s), sing_new(s2_g, s2, closest_s),
                      sing_new(s3_g, s3, closest_s)>>)

\* closest_sing_vec of the 3-D branch where the switch rebuilds ri, else <<>>.
closest_sing_vec_3d(slim_energy, s1, s2, s3) ==
    IF slim_energy \in {"CONFORMAL", "EXP_CONFORMAL"}
    THEN LET closest_s == closest_s_3d(s1, s3) IN Vec(<<closest_s, closest_s, closest_s>>)
    ELSE <<>>

\* if (abs(s - 1) < eps) m_sing_new(k) = 1, 2-D.
guard_2d(w, s) == IF Lt(AbsR(Sub(s, One)), eps) THEN One ELSE w

\* The 3-D branch without its guards.
guard_3d_off(w, s) == w

\* if (abs(s - 1) < eps) m_sing_new(k) = 1, 3-D.
guard_3d(w, s) == IF Lt(AbsR(Sub(s, One)), eps) THEN One ELSE w

\* mat_W = ui * m_sing_new.asDiagonal() * ui.transpose()
mat_W(ui, m_sing_new, dim) ==
    MatMul(MatMul(ui, AsDiagonal(m_sing_new, dim), dim), Transpose(ui, dim), dim)

\* m_sing_new as the switch of either branch leaves it.
switch_m_sing_new(slim_energy, s, dim, exp_f) ==
    IF dim = 2
    THEN m_sing_new_2d(slim_energy, s[0], s[1], exp_f)
    ELSE m_sing_new_3d(slim_energy, s[0], s[1], s[2], exp_f)

\* m_sing_new after the guards that follow the switch.
guarded(raw, s, dim) ==
    [k \in 0..(dim - 1) |->
        IF dim = 2 THEN guard_2d(raw[k], s[k]) ELSE guard_3d(raw[k], s[k])]

\* closest_sing_vec where the switch rebuilds ri, else <<>>.
closest_sing_vec(slim_energy, s, dim) ==
    IF dim = 2
    THEN closest_sing_vec_2d(slim_energy, s[0], s[1])
    ELSE closest_sing_vec_3d(slim_energy, s[0], s[1], s[2])

\* ri as the element pass leaves it: ui * closest_sing_vec.asDiagonal() *
\* vi.transpose() where the switch rebuilds it, else the ri of igl::polar_svd.
local_target(svd, c, dim) ==
    IF c = <<>> THEN svd.ri
    ELSE MatMul(MatMul(svd.ui, AsDiagonal(c, dim), dim), Transpose(svd.vi, dim), dim)

\* What one pass of the element loop has computed: the decomposition, the
\* reweighted singular values before (raw) and after the guard (m_sing_new),
\* the weight matrix and the local target.
element_pass(svd, raw, m_sing_new, c, dim) ==
    [sing |-> svd.sing, raw |-> raw, m_sing_new |-> m_sing_new,
     mat_W |-> mat_W(svd.ui, m_sing_new, dim),
     ri |-> local_target(svd, c, dim), ui |-> svd.ui, vi |-> svd.vi]

\* The element pass from the switch on.
element_after_switch(slim_energy, svd, raw, dim) ==
    element_pass(svd, raw, guarded(raw, svd.sing, dim),
                 closest_sing_vec(slim_energy, svd.sing, dim), dim)

\* The element pass from the decomposition on.
element_after_svd(slim_energy, svd, dim, exp_f) ==
    element_after_switch(slim_energy, svd,
                         switch_m_sing_new(slim_energy, svd.sing, dim, exp_f), dim)

\* One pass of the element loop on the Jacobian ji.
local_step_element(slim_energy, ji, dim, exp_f) ==
    element_after_svd(slim_energy, polar_svd(ji, dim), dim, exp_f)

----------------------------------------------------------------------------
(* WeightedGlobalLocal::compute_energy_with_jacobians, per element.        *)

\* The symmetric Dirichlet energy less its minimum.
symmetric_dirichlet_2d_excess(s1, s2) ==
    Sub(Add(Add(Sq(s1), PowM2(s1)), Add(Sq(s2), PowM2(s2))), Int2R(4))

\* pow(s1, 2) + pow(s1, -2) + pow(s2, 2) + pow(s2, -2)
symmetric_dirichlet_2d(s1, s2) == Add(Add(Sq(s1), PowM2(s1)), Add(Sq(s2), PowM2(s2)))

\* (pow(s1, 2) + pow(s2, 2)) / (2 * s1 * s2)
conformal_2d(s1, s2) == Div(Add(Sq(s1), Sq(s2)), Mul(Mul(Two, s1), s2))

\* The summand of the 2-D switch, without the factor areas(i).
element_energy_2d(slim_energy, s1, s2, exp_factor) ==
    CASE slim_energy = "ARAP" -> Add(Sq(Sub(s1, One)), Sq(Sub(s2, One)))
      [] slim_energy = "SYMMETRIC_DIRICHLET" -> symmetric_dirichlet_2d(s1, s2)
      [] slim_energy = "EXP_SYMMETRIC_DIRICHLET" ->
            Exp(Mul(exp_factor, symmetric_dirichlet_2d(s1, s2)))
      [] slim_energy = "LOG_ARAP" -> Add(Sq(Log(s1)), Sq(Log(s2)))
      [] slim_energy = "CONFORMAL" -> conformal_2d(s1, s2)
      [] slim_energy = "EXP_CONFORMAL" -> Exp(Mul(exp_factor, conformal_2d(s1, s2)))

\* pow(s1, 2) + pow(s1, -2) + ... + pow(s3, 2) + pow(s3, -2)
symmetric_dirichlet_3d(s1, s2, s3) ==
    Add(Add(Add(Sq(s1), PowM2(s1)), Add(Sq(s2), PowM2(s2))), Add(Sq(s3), PowM2(s3)))

\* (pow(s1, 2) + pow(s2, 2) + pow(s3, 2)) / (3 * pow(s1 * s2 * s3, 2. / 3.))
conformal_3d(s1, s2, s3) ==
    Div(Add(Add(Sq(s1), Sq(s2)), Sq(s3)), Mul(Int2R(3), Pow23(Mul(Mul(s1, s2), s3))))

\* The summand of the 3-D switch, without the factor areas(i).
element_energy_3d(slim_energy, s1, s2, s3, exp_factor) ==
    CASE slim_energy = "ARAP" ->
            Add(Add(Sq(Sub(s1, One)), Sq(Sub(s2, One))), Sq(Sub(s3, One)))
      [] slim_energy = "SYMMETRIC_DIRICHLET" -> symmetric_dirichlet_3d(s1, s2, s3)
      [] slim_energy = "EXP_SYMMETRIC_DIRICHLET" ->
            Exp(Mul(exp_factor, symmetric_dirichlet_3d(s1, s2, s3)))
      [] slim_energy = "LOG_ARAP" ->
            Add(Add(Sq(Log(s1)), Sq(Log(AbsR(s2)))), Sq(Log(AbsR(s3))))
      [] slim_energy = "CONFORMAL" -> conformal_3d(s1, s2, s3)
      [] slim_energy = "EXP_CONFORMAL" -> Exp(conformal_3d(s1, s2, s3))

----------------------------------------------------------------------------
(* Sparse operators: [rows, cols, nz], nz the stored <<row, col, value>>   *)
(* entries in storage order.                                               *)

\* (D * u)(r)
SpRow(D, u, r) ==
    SumTo([k \in 0..(Len(D.nz) - 1) |->
              IF D.nz[k + 1][1] = r THEN Mul(D.nz[k + 1][3], u[D.nz[k + 1][2]])
              ELSE Zero],
          Len(D.nz))

\* D * u
SpMulVec(D, u) == [r \in 0..(D.rows - 1) |-> SpRow(D, u, r)]

\* uv.col(c)
Col(uv, c) == [j \in DOMAIN uv |-> uv[j][c]]

\* The empty operator of a default-constructed Eigen::SparseMatrix.
EmptySp == [rows |-> 0, cols |-> 0, nz |-> <<>>]

\* rows() of a dense matrix or vector held as a 0-based function.
Rows(m) == Cardinality(DOMAIN m)

\* cols() of a dense matrix.
Cols(m) == IF Rows(m) = 0 THEN 0 ELSE Cardinality(DOMAIN m[0])

----------------------------------------------------------------------------
(* The meshes given to slim_precompute, with what the collaborators        *)
(* igl::doublearea, igl::local_basis and igl::grad return for them.        *)

\* Two right triangles in the plane z = 0 that share vertex 0, the right
\* angle of both: one with legs of length 1, one with legs of length 2.
TriV ==
    Mat(<< <<Zero, Zero, Zero>>, <<One, Zero, Zero>>, <<Zero, One, Zero>>,
           <<Neg(Two), Zero, Zero>>, <<Zero, Neg(Two), Zero>> >>)

TriF == Mat(<< <<0, 1, 2>>, <<0, 3, 4>> >>)

\* One tetrahedron with unit edges along the axes at vertex 0.
TetV ==
    Mat(<< <<Zero, Zero, Zero>>, <<One, Zero, Zero>>, <<Zero, One, Zero>>,
           <<Zero, Zero, One>> >>)

TetF == Mat(<< <<0, 1, 2, 3>> >>)

\* One polygon with five corners: neither a triangle nor a tetrahedron.
PentV ==
    Mat(<< <<Zero, Zero, Zero>>, <<One, Zero, Zero>>, <<Two, One, Zero>>,
           <<One, Two, Zero>>, <<Zero, One, Zero>> >>)

PentF == Mat(<< <<0, 1, 2, 3, 4>> >>)

\* Length of the edge from the first vertex of element e to its vertex a,
\* for an edge that runs along a coordinate axis.
EdgeLength(Vm, Fm, e, a) ==
    SumTo([c \in 0..2 |-> AbsR(Sub(Vm[Fm[e][a]][c], Vm[Fm[e][0]][c]))], 3)

\* The operator along local axis a (1, 2 or 3) of simplices whose edges at
\* their first vertex are the local axes: row e is
\* (x(F(e, a)) - x(F(e, 0))) / length.
AxisDifference(Vm, Fm, a) ==
    [rows |-> Rows(Fm), cols |-> Rows(Vm),
     nz |-> [k \in 1..(2 * Rows(Fm)) |->
                LET e == (k - 1) \div 2
                    h == EdgeLength(Vm, Fm, e, a)
                IN  IF k % 2 = 1 THEN <<e, Fm[e][0], Neg(Inv(h))>>
                    ELSE <<e, Fm[e][a], Inv(h)>>]]

\* igl::doublearea(V, F, dblA)
doublearea(Vm, Fm) ==
    CASE Fm = TriF -> Vec(<<One, Int2R(4)>>)
      [] Fm = TetF -> Vec(<<Two>>)
      [] OTHER -> <<>>

\* compute_surface_gradient_matrix(V, F, F1, F2, D1, D2) after igl::local_basis
surface_gradient(Vm, Fm) ==
    [D1 |-> AxisDifference(Vm, Fm, 1),
     D2 |-> AxisDifference(Vm, Fm, 2)]

\* The three row blocks of igl::grad(V, F, G, uniform) for tetrahedra.
tet_gradient(Vm, Fm) ==
    [Dx |-> AxisDifference(Vm, Fm, 1),
     Dy |-> AxisDifference(Vm, Fm, 2),
     Dz |-> AxisDifference(Vm, Fm, 3)]

----------------------------------------------------------------------------
(* Operations of WeightedGlobalLocal on the shared SLIMData record d.      *)

\* The content of storage that has been allocated and not yet written.  No
\* operation reads it before writing it.
Uninit == NaN

\* v.resize(n): a no-op when the size is already n, fresh storage otherwise.
ResizeVec(v, n) == IF Rows(v) = n THEN v ELSE [i \in 0..(n - 1) |-> Uninit]

\* m.resize(r, c)
ResizeMat(m, r, c) ==
    IF Rows(m) = r /\ (r = 0 \/ Cols(m) = c) THEN m
    ELSE [i \in 0..(r - 1) |-> [j \in 0..(c - 1) |-> Uninit]]

\* The body of pre_calc under its guard !m_state.has_pre_calc.
pre_calc_body(d) ==
    LET f_n == d.f_num
        dim == IF Cols(d.F) = 3 THEN 2 ELSE 3
        g2 == surface_gradient(d.V, d.F)
        g3 == tet_gradient(d.V, d.F)
        sized == IF dim = 2
                 THEN [d EXCEPT !.Dx = g2.D1, !.Dy = g2.D2,
                                !.W_11 = ResizeVec(@, f_n), !.W_12 = ResizeVec(@, f_n),
                                !.W_21 = ResizeVec(@, f_n), !.W_22 = ResizeVec(@, f_n)]
                 ELSE [d EXCEPT !.Dx = g3.Dx, !.Dy = g3.Dy, !.Dz = g3.Dz,
                                !.W_11 = ResizeVec(@, f_n), !.W_12 = ResizeVec(@, f_n),
                                !.W_13 = ResizeVec(@, f_n), !.W_21 = ResizeVec(@, f_n),
                                !.W_22 = ResizeVec(@, f_n), !.W_23 = ResizeVec(@, f_n),
                                !.W_31 = ResizeVec(@, f_n), !.W_32 = ResizeVec(@, f_n),
                                !.W_33 = ResizeVec(@, f_n)]
    IN  [sized EXCEPT !.v_n = d.v_num, !.f_n = f_n, !.dim = dim,
                      !.Ri = ResizeMat(@, f_n, dim * dim),
                      !.Ji = ResizeMat(@, f_n, dim * dim),
                      !.rhs = ResizeVec(@, dim * d.v_num),
                      !.WGL_M = [k \in 0..(dim * dim * f_n - 1) |-> d.M[k % f_n]],
                      !.first_solve = TRUE, !.has_pre_calc = TRUE]

\* pre_calc without the test of has_pre_calc.
pre_calc_unguarded(d) == pre_calc_body(d)

\* WeightedGlobalLocal::pre_calc
pre_calc(d) == IF ~d.has_pre_calc THEN pre_calc_body(d) ELSE d

\* Whether every product and column assignment of compute_jacobians(uv) has
\* matching sizes; Eigen leaves the behaviour undefined otherwise.
jacobians_defined(d, uv) ==
    LET n == IF Cols(d.F) = 3 THEN 2 ELSE 3
        ops == IF n = 2 THEN {d.Dx, d.Dy} ELSE {d.Dx, d.Dy, d.Dz}
    IN  /\ Cols(d.Ji) >= n * n
        /\ Cols(uv) >= n
        /\ \A D \in ops : D.cols = Rows(uv) /\ D.rows = Rows(d.Ji)

\* The value compute_jacobians(uv) leaves in m_state.Ji.
compute_jacobians(d, uv) ==
    LET n == IF Cols(d.F) = 3 THEN 2 ELSE 3
        op(a) == CASE a = 0 -> d.Dx [] a = 1 -> d.Dy [] OTHER -> d.Dz
        col == [c \in 0..(n * n - 1) |-> SpMulVec(op(c % n), Col(uv, c \div n))]
    IN  [i \in DOMAIN d.Ji |->
            [c \in DOMAIN d.Ji[i] |-> IF c < n * n THEN col[c][i] ELSE d.Ji[i][c]]]

\* The matrix ji the element loops read out of row i of Ji.
ji_of(Ji, i, dim) == [r \in 0..(dim - 1) |-> [c \in 0..(dim - 1) |-> Ji[i][dim * r + c]]]

\* The summand of either switch for the singular values sing.
element_energy(slim_energy, sing, dim, exp_factor) ==
    IF dim = 2
    THEN element_energy_2d(slim_energy, sing[0], sing[1], exp_factor)
    ELSE element_energy_3d(slim_energy, sing[0], sing[1], sing[2], exp_factor)

\* WeightedGlobalLocal::compute_energy_with_jacobians
compute_energy_with_jacobians(d, Ji, areas) ==
    SumTo([i \in 0..(d.f_n - 1) |->
              Mul(areas[i],
                  element_energy(d.slim_energy,
                                 polar_svd(ji_of(Ji, i, d.dim), d.dim).sing,
                                 d.dim, d.exp_factor))],
          d.f_n)

\* (bc.row(i) - V_o.row(b(i))).squaredNorm()
squaredNorm(d, V_o, i) ==
    SumTo([c \in 0..(Cols(d.bc) - 1) |-> Sq(Sub(d.bc[i][c], V_o[d.b[i]][c]))], Cols(d.bc))

\* WeightedGlobalLocal::compute_soft_const_energy
compute_soft_const_energy(d, V_o) ==
    SumTo([i \in 0..(Rows(d.b) - 1) |-> Mul(d.soft_const_p, squaredNorm(d, V_o, i))],
          Rows(d.b))

\* The stores of the element loop, el[i] being the pass for row i of Ji.
store_elements(d, Ji, el) ==
    [d EXCEPT !.Ji = Ji,
              !.Ri = [i \in DOMAIN Ji |->
                         [k \in 0..(d.dim * d.dim - 1) |-> el[i].ri[k % d.dim][k \div d.dim]]],
              !.W_11 = [i \in DOMAIN Ji |-> el[i].mat_W[0][0]],
              !.W_12 = [i \in DOMAIN Ji |-> el[i].mat_W[0][1]],
              !.W_13 = IF d.dim = 2 THEN @ ELSE [i \in DOMAIN Ji |-> el[i].mat_W[0][2]],
              !.W_21 = [i \in DOMAIN Ji |-> el[i].mat_W[1][0]],
              !.W_22 = [i \in DOMAIN Ji |-> el[i].mat_W[1][1]],
              !.W_23 = IF d.dim = 2 THEN @ ELSE [i \in DOMAIN Ji |-> el[i].mat_W[1][2]],
              !.W_31 = IF d.dim = 2 THEN @ ELSE [i \in DOMAIN Ji |-> el[i].mat_W[2][0]],
              !.W_32 = IF d.dim = 2 THEN @ ELSE [i \in DOMAIN Ji |-> el[i].mat_W[2][1]],
              !.W_33 = IF d.dim = 2 THEN @ ELSE [i \in DOMAIN Ji |-> el[i].mat_W[2][2]]]

\* The element loop over the rows of Ji.
element_loop(d, Ji) ==
    store_elements(d, Ji,
                   [i \in DOMAIN Ji |->
                       local_step_element(d.slim_energy, ji_of(Ji, i, d.dim), d.dim,
                                          d.exp_factor)])

\* WeightedGlobalLocal::update_weights_and_closest_rotations: the state after
\* compute_jacobians(uv) and the element loop.
update_weights_and_closest_rotations(d, uv) == element_loop(d, compute_jacobians(d, uv))

\* compute_energy after its call of compute_jacobians has left the state
\* after: the state and the value returned.
energy_after_jacobians(after, V_new) ==
    [state |-> after,
     value |-> Add(compute_energy_with_jacobians(after, after.Ji, after.M),
                   compute_soft_const_energy(after, V_new))]

\* compute_energy running the whole local step where it should only compute
\* the Jacobians.
compute_energy_stepping(d, V_new) ==
    energy_after_jacobians(update_weights_and_closest_rotations(d, V_new), V_new)

\* WeightedGlobalLocal::compute_energy: the state it leaves and its result.
compute_energy(d, V_new) ==
    energy_after_jacobians([d EXCEPT !.Ji = compute_jacobians(d, V_new)], V_new)

----------------------------------------------------------------------------
(* The global step: build_linear_system and what it calls.                 *)

\* m_state.W_pq for 0-based p and q.
W_of(d, p, q) ==
    CASE p = 0 /\ q = 0 -> d.W_11 [] p = 0 /\ q = 1 -> d.W_12 [] p = 0 /\ q = 2 -> d.W_13
      [] p = 1 /\ q = 0 -> d.W_21 [] p = 1 /\ q = 1 -> d.W_22 [] p = 1 /\ q = 2 -> d.W_23
      [] p = 2 /\ q = 0 -> d.W_31 [] p = 2 /\ q = 1 -> d.W_32 [] p = 2 /\ q = 2 -> d.W_33

\* Dx, Dy or Dz for a = 0, 1 or 2.
D_of(d, a) == CASE a = 0 -> d.Dx [] a = 1 -> d.Dy [] OTHER -> d.Dz

\* The triplets buildA pushes for the stored entry t of the operator of axis
\* a: one for each block W_pq, at row (dim * p + a) * f_n + t.row and column
\* q * v_n + t.col.
entry_triplets(d, a, t) ==
    {<<(d.dim * p + a) * d.f_n + t[1], q * d.v_n + t[2], Mul(t[3], W_of(d, p, q)[t[1]])>> :
        p \in 0..(d.dim - 1), q \in 0..(d.dim - 1)}

\* IJV of buildA.  The order of the triplets does not matter to
\* setFromTriplets, and no two of them of one axis and block coincide.
IJV(d) ==
    UNION {UNION {entry_triplets(d, a, D_of(d, a).nz[k]) : k \in 1..Len(D_of(d, a).nz)} :
              a \in 0..(d.dim - 1)}

RECURSIVE SumSet(_)
\* The sum of the values of a set of triplets.
SumSet(S) ==
    IF S = {} THEN Zero
    ELSE LET t == CHOOSE u \in S : TRUE IN Add(t[3], SumSet(S \ {t}))

\* WeightedGlobalLocal::buildA with A.setFromTriplets
buildA(d) ==
    LET ijv == IJV(d)
    IN  [r \in 0..(d.dim * d.dim * d.f_n - 1) |->
            [c \in 0..(d.dim * d.v_n - 1) |->
                SumSet({t \in ijv : t[1] = r /\ t[2] = c})]]

\* At * WGL_M.asDiagonal() * x for a vector x
AtM(d, A, x) ==
    [c \in 0..(d.dim * d.v_n - 1) |->
        SumTo([k \in 0..(d.dim * d.dim * d.f_n - 1) |-> Mul(A[k][c], Mul(d.WGL_M[k], x[k]))],
              d.dim * d.dim * d.f_n)]

\* L = At * WGL_M.asDiagonal() * A + proximal_p * id_m
proximal_system(d, A) ==
    [r \in 0..(d.dim * d.v_n - 1) |->
        LET col == AtM(d, A, [k \in 0..(d.dim * d.dim * d.f_n - 1) |-> A[k][r]])
        IN  [c \in 0..(d.dim * d.v_n - 1) |->
                IF r = c THEN Add(col[c], d.proximal_p) ELSE col[c]]]

\* f_rhs reading Ri row by row, ri(p, a) at Ri(i, dim * p + a).
f_rhs_row_major(d) ==
    [k \in 0..(d.dim * d.dim * d.f_n - 1) |->
        LET i == k % d.f_n
            p == (k \div d.f_n) \div d.dim
            a == (k \div d.f_n) % d.dim
        IN  SumTo([q \in 0..(d.dim - 1) |-> Mul(W_of(d, p, q)[i], d.Ri[i][d.dim * q + a])],
                  d.dim)]

\* f_rhs of buildRhs
f_rhs(d) ==
    [k \in 0..(d.dim * d.dim * d.f_n - 1) |->
        LET i == k % d.f_n
            p == (k \div d.f_n) \div d.dim
            a == (k \div d.f_n) % d.dim
        IN  SumTo([q \in 0..(d.dim - 1) |-> Mul(W_of(d, p, q)[i], d.Ri[i][d.dim * a + q])],
                  d.dim)]

\* uv_flat of buildRhs
uv_flat(d) == [k \in 0..(d.dim * d.v_n - 1) |-> d.V_o[k % d.v_n][k \div d.v_n]]

\* WeightedGlobalLocal::buildRhs: the value it leaves in m_state.rhs.
buildRhs(d, A) ==
    LET b == AtM(d, A, f_rhs(d))
        flat == uv_flat(d)
    IN  [k \in 0..(d.dim * d.v_n - 1) |-> Add(b[k], Mul(d.proximal_p, flat[k]))]

\* What add_soft_constraints adds at index k of rhs (with the target
\* coordinate) or of the diagonal of L (with 1 in its place).
soft_term(d, k, with_bc) ==
    LET v_n == d.v_num
    IN  SumTo([j \in 0..(d.dim * Rows(d.b) - 1) |->
                  LET dd == j \div Rows(d.b)
                      i == j % Rows(d.b)
                  IN  IF dd * v_n + d.b[i] = k
                      THEN Mul(d.soft_const_p, IF with_bc THEN d.bc[i][dd] ELSE One)
                      ELSE Zero],
              d.dim * Rows(d.b))

\* add_soft_constraints adding to the rhs an earlier iteration left in the
\* state, not to the rebuilt one.
add_soft_constraints_on_old_rhs(d, L0, rhs0) ==
    [L |-> [r \in DOMAIN L0 |-> [c \in DOMAIN L0[r] |->
               IF r = c THEN Add(L0[r][c], soft_term(d, r, FALSE)) ELSE L0[r][c]]],
     state |-> [d EXCEPT !.rhs = [k \in DOMAIN rhs0 |->
                                     Add(IF k \in DOMAIN d.rhs /\ IsFinite(d.rhs[k])
                                         THEN d.rhs[k] ELSE rhs0[k],
                                         soft_term(d, k, TRUE))]]]

\* WeightedGlobalLocal::add_soft_constraints on the system of L0 and rhs0.
add_soft_constraints(d, L0, rhs0) ==
    [L |-> [r \in DOMAIN L0 |-> [c \in DOMAIN L0[r] |->
               IF r = c THEN Add(L0[r][c], soft_term(d, r, FALSE)) ELSE L0[r][c]]],
     state |-> [d EXCEPT !.rhs = [k \in DOMAIN rhs0 |->
                                     Add(rhs0[k], soft_term(d, k, TRUE))]]]

\* build_linear_system after buildA(A).
system_of(d, A) == add_soft_constraints(d, proximal_system(d, A), buildRhs(d, A))

\* WeightedGlobalLocal::build_linear_system: L and the state with the new rhs.
build_linear_system(d) == system_of(d, buildA(d))

----------------------------------------------------------------------------
(* The arguments the callers pass and the results the external solvers and *)
(* the line search produce.                                                *)

\* Longest slim_solve call, and the number of iterations one run executes.
MaxIterNum == 2
MaxIterations == 2

\* The number of slim_precompute calls on one SLIMData.
MaxPrecompute == 2

\* Positions with vertex F(e, 0) at the origin whose element e has Jacobian
\* Js[e]: vertex F(e, a) lies at length * (column a - 1 of Js[e]).
PositionOf(Vm, Fm, Js) ==
    LET n == Cols(Fm) - 1
    IN  [j \in 0..(Rows(Vm) - 1) |-> [c \in 0..(n - 1) |->
            IF \E e \in DOMAIN Fm : \E a \in 1..n : Fm[e][a] = j
            THEN LET e == CHOOSE e1 \in DOMAIN Fm : \E a \in 1..n : Fm[e1][a] = j
                     a == CHOOSE a1 \in 1..n : Fm[e][a1] = j
                 IN  Mul(EdgeLength(Vm, Fm, e, a), Js[e][c][a - 1])
            ELSE Zero]]

\* The Jacobian with left rotation ui and singular values sing.
Jac2(ui, sing) == Recompose([ui |-> ui, sing |-> Vec(sing), vi |-> Id2], 2)
Jac3(ui, sing) == Recompose([ui |-> ui, sing |-> Vec(sing), vi |-> Id3], 3)

\* Initial guesses V_init for the triangle mesh, by the Jacobians of its two
\* elements: undeformed, stretched, with equal singular values, inverted.
TriGuesses ==
    {PositionOf(TriV, TriF, Vec(js)) :
        js \in { <<Jac2(Id2, <<One, One>>), Jac2(Id2, <<One, One>>)>>,
                 <<Jac2(Rot2, <<One, One>>), Jac2(Id2, <<Two, One>>)>>,
                 <<Jac2(Id2, <<Two, Half>>), Jac2(Rot2, <<Two, Half>>)>>,
                 <<Jac2(Id2, <<Two, Two>>), Jac2(Id2, <<Two, One>>)>>,
                 <<Jac2(Rot2, <<Two, One>>), Jac2(Rot2, <<Two, Two>>)>>,
                 <<Jac2(Id2, <<Two, Neg(One)>>), Jac2(Id2, <<One, One>>)>> }}

\* Initial guesses V_init for the tetrahedron.
TetGuesses ==
    {PositionOf(TetV, TetF, Vec(<<j>>)) :
        j \in { Jac3(Id3, <<One, One, One>>), Jac3(Rot3, <<Two, One, One>>),
                Jac3(Id3, <<Two, One, Half>>), Jac3(Id3, <<Two, Two, Two>>),
                Jac3(Id3, <<Two, One, Neg(One)>>) }}

\* Soft constraints: none, or vertex 1 pulled to the first unit point.
Constraints(n) ==
    { [b |-> <<>>, bc |-> <<>>, soft_p |-> Zero],
      [b |-> Vec(<<1>>), bc |-> Mat(<< [c \in 1..n |-> IF c = 1 THEN One ELSE Zero] >>),
       soft_p |-> Two] }

\* The argument lists of slim_precompute.
Arguments(Vm, Fm, guesses, energies, n) ==
    {[V |-> Vm, F |-> Fm, V_init |-> g, slim_energy |-> k, b |-> c.b, bc |-> c.bc,
      soft_p |-> c.soft_p] : g \in guesses, k \in energies, c \in Constraints(n)}

\* First calls: both kinds of mesh with every energy, and a mesh of pentagons.
FirstArguments ==
    Arguments(TriV, TriF, TriGuesses, SLIM_ENERGY, 2)
    \cup Arguments(TetV, TetF, TetGuesses, SLIM_ENERGY, 3)
    \cup Arguments(PentV, PentF, {[j \in 0..4 |-> [c \in 0..1 |-> PentV[j][c]]]},
                   {"ARAP"}, 2)

\* Later calls on the same SLIMData.
LaterArguments ==
    {a \in FirstArguments :
        /\ a.slim_energy = "ARAP"
        /\ a.b = <<>>
        /\ a.V_init \in {PositionOf(TriV, TriF, Vec(<<Jac2(Id2, <<One, One>>),
                                                      Jac2(Id2, <<One, One>>)>>)),
                         PositionOf(TetV, TetF, Vec(<<Jac3(Id3, <<One, One, One>>)>>))}}

\* Results of the linear solve: the same for every system, one without and
\* one with inverted elements.
SolverResults(d) ==
    IF d.dim = 2
    THEN {PositionOf(d.V, d.F, [e \in DOMAIN d.F |-> Jac2(Rot2, <<Two, Half>>)]),
          PositionOf(d.V, d.F, [e \in DOMAIN d.F |-> Jac2(Id2, <<Two, Neg(One)>>)])}
    ELSE {PositionOf(d.V, d.F, [e \in DOMAIN d.F |-> Jac3(Rot3, <<Two, One, Half>>)]),
          PositionOf(d.V, d.F, [e \in DOMAIN d.F |-> Jac3(Id3, <<Two, One, Neg(One)>>)])}

\* The positions the line search evaluates: the full step to dst_v, or a
\* shorter step.
LineSearchTrials(d, dst_v) ==
    {dst_v} \cup
    (IF d.dim = 2
     THEN {PositionOf(d.V, d.F, [e \in DOMAIN d.F |-> Jac2(Id2, <<Two, One>>)])}
     ELSE {PositionOf(d.V, d.F, [e \in DOMAIN d.F |-> Jac3(Id3, <<Two, One, One>>)])})

\* Contents of memory that is read before it is written.
Garbage == {Zero, Int2R(7)}

\* Whether every singular value of every row of Ji is positive.
AllPositive(d) ==
    \A i \in DOMAIN d.Ji :
        LET sing == polar_svd(ji_of(d.Ji, i, d.dim), d.dim).sing
        IN  \A k \in DOMAIN sing : Lt(Zero, sing[k])

----------------------------------------------------------------------------
(* The state machine of slim_precompute and slim_solve on one SLIMData.    *)

VARIABLES
    data,         \* the SLIMData record, shared with its WeightedGlobalLocal
    pc,           \* the next step of the running call, or where it stopped
    n_pre,        \* slim_precompute calls made so far
    i_left,       \* iter_num - i of the running slim_solve
    solved,       \* iterations completed so far
    dest_res,     \* local of slim_solve
    L,            \* local of solve_weighted_arap
    guess,        \* local of solve_weighted_arap, 3-D path
    cg_info,      \* solver.info() of the 3-D path
    old_energy,   \* local of slim_solve
    ls_cur,       \* cur_energy handed to flip_avoiding_line_search
    ls_x,         \* the position the line search evaluated
    ls_e,         \* the value the energy callback returned for it
    ls_ret,       \* the energy flip_avoiding_line_search returned
    contract_ok   \* the initial guess had no inverted element and no line
                  \* search has returned one

vars ==
    <<data, pc, n_pre, i_left, solved, dest_res, L, guess, cg_info, old_energy,
      ls_cur, ls_x, ls_e, ls_ret, contract_ok>>

\* A default-constructed SLIMData.
DefaultData ==
    [V |-> <<>>, F |-> <<>>, V_o |-> <<>>, v_num |-> 0, f_num |-> 0,
     slim_energy |-> "ARAP", b |-> <<>>, bc |-> <<>>, soft_const_p |-> Uninit,
     proximal_p |-> Uninit, M |-> <<>>, mesh_area |-> Uninit,
     mesh_improvement_3d |-> FALSE, exp_factor |-> Uninit, energy |-> Uninit,
     dim |-> 0, v_n |-> 0, f_n |-> 0, Dx |-> EmptySp, Dy |-> EmptySp, Dz |-> EmptySp,
     W_11 |-> <<>>, W_12 |-> <<>>, W_13 |-> <<>>, W_21 |-> <<>>, W_22 |-> <<>>,
     W_23 |-> <<>>, W_31 |-> <<>>, W_32 |-> <<>>, W_33 |-> <<>>,
     Ri |-> <<>>, Ji |-> <<>>, rhs |-> <<>>, WGL_M |-> <<>>,
     first_solve |-> FALSE, has_pre_calc |-> FALSE]

\* The locals of slim_solve and of what it calls, outside their scope.
NoLocals ==
    /\ dest_res' = <<>>
    /\ L' = <<>>
    /\ guess' = <<>>
    /\ cg_info' = "none"
    /\ ls_x' = <<>>
    /\ ls_e' = Zero

Init ==
    /\ data = DefaultData
    /\ pc = "start"
    /\ n_pre = 0
    /\ i_left = 0
    /\ solved = 0
    /\ dest_res = <<>>
    /\ L = <<>>
    /\ guess = <<>>
    /\ cg_info = "none"
    /\ old_energy = Uninit
    /\ ls_cur = Uninit
    /\ ls_x = <<>>
    /\ ls_e = Zero
    /\ ls_ret = Uninit
    /\ contract_ok = FALSE

\* The assignments of slim_precompute before its assert.
precompute_assignments(d, a) ==
    LET M == [i \in DOMAIN doublearea(a.V, a.F) |-> Div(doublearea(a.V, a.F)[i], Two)]
    IN  [d EXCEPT !.V = a.V, !.F = a.F, !.V_o = a.V_init,
                  !.v_num = Rows(a.V), !.f_num = Rows(a.F),
                  !.slim_energy = a.slim_energy,
                  !.b = a.b, !.bc = a.bc, !.soft_const_p = a.soft_p,
                  !.proximal_p = PROXIMAL_P,
                  !.M = M, !.mesh_area = SumTo(M, Rows(M)),
                  !.mesh_improvement_3d = FALSE, !.exp_factor = EXP_FACTOR]

\* slim_precompute up to the construction of the WeightedGlobalLocal.  With
\* an arity other than 3 or 4 the assert stops a debug build; a build with
\* NDEBUG goes on into igl::grad with elements it does not support.
slim_precompute ==
    /\ pc \in {"start", "idle"}
    /\ n_pre < MaxPrecompute
    /\ \E a \in IF n_pre = 0 THEN FirstArguments ELSE LaterArguments :
          /\ data' = precompute_assignments(data, a)
          /\ IF Cols(a.F) = 3 \/ Cols(a.F) = 4
             THEN pc' = "pre_calc"
             ELSE pc' \in {"aborted", "undefined"}
    /\ n_pre' = n_pre + 1
    /\ i_left' = 0
    /\ old_energy' = Uninit
    /\ ls_cur' = Uninit
    /\ ls_ret' = Uninit
    /\ contract_ok' = FALSE
    /\ NoLocals
    /\ UNCHANGED solved

\* data.wGlobalLocal->pre_calc() of slim_precompute
precompute_pre_calc ==
    /\ pc = "pre_calc"
    /\ data' = pre_calc(data)
    /\ pc' = "energy"
    /\ UNCHANGED <<n_pre, i_left, solved, dest_res, L, guess, cg_info, old_energy,
                   ls_cur, ls_x, ls_e, ls_ret, contract_ok>>

\* The state after data.energy = r.value / data.mesh_area for the result r of
\* compute_energy.
store_energy(r) == [r.state EXCEPT !.energy = Div(r.value, r.state.mesh_area)]

\* data.energy = data.wGlobalLocal->compute_energy(data.V_o) / data.mesh_area
precompute_energy ==
    /\ pc = "energy"
    /\ IF jacobians_defined(data, data.V_o)
       THEN /\ data' = store_energy(compute_energy(data, data.V_o))
            /\ contract_ok' = AllPositive(data')
            /\ pc' = "idle"
       ELSE /\ pc' = "undefined"
            /\ UNCHANGED <<data, contract_ok>>
    /\ UNCHANGED <<n_pre, i_left, solved, dest_res, L, guess, cg_info, old_energy,
                   ls_cur, ls_x, ls_e, ls_ret>>

\* A call slim_solve(data, iter_num) with iter_num > 0 enters its loop.
slim_solve(iter_num) ==
    /\ pc = "idle"
    /\ solved + iter_num <= MaxIterations
    /\ i_left' = iter_num
    /\ pc' = "iter"
    /\ UNCHANGED <<data, n_pre, solved, dest_res, L, guess, cg_info, old_energy,
                   ls_cur, ls_x, ls_e, ls_ret, contract_ok>>

\* dest_res started from a mirrored copy of the positions.
initial_dest_res_mirrored(d) ==
    PositionOf(d.V, d.F,
               [e \in DOMAIN d.F |->
                   IF d.dim = 2 THEN Jac2(Id2, <<Two, Neg(One)>>)
                   ELSE Jac3(Id3, <<Two, One, Neg(One)>>)])

\* Eigen::MatrixXd dest_res; dest_res = data.V_o;
initial_dest_res(d) == d.V_o

\* dest_res = data.V_o and the first half of solve_weighted_proxy(dest_res)
local_step ==
    /\ pc = "iter"
    /\ dest_res' = initial_dest_res(data)
    /\ data' = update_weights_and_closest_rotations(data, dest_res')
    /\ pc' = "global"
    /\ UNCHANGED <<n_pre, i_left, solved, L, guess, cg_info, old_energy,
                   ls_cur, ls_x, ls_e, ls_ret, contract_ok>>

\* guess of solve_weighted_arap: the entries its loop writes, and whatever
\* the allocation held in the others.
warm_start(d, uv, g) ==
    [k \in 0..(Rows(uv) * d.dim - 1) |->
        IF \E i \in 0..(d.dim - 1) : \E j \in 0..(d.dim - 1) : Rows(uv) * i + j = k
        THEN LET i == CHOOSE i1 \in 0..(d.dim - 1) :
                          \E j \in 0..(d.dim - 1) : Rows(uv) * i1 + j = k
             IN  uv[i][k - Rows(uv) * i]
        ELSE g]

\* uv.col(i) = Uc.block(i * v_n, 0, v_n, 1)
unflatten(d, uv, Uc) ==
    [j \in DOMAIN uv |-> [c \in DOMAIN uv[j] |->
        IF c < d.dim THEN Uc[c * d.v_n + j] ELSE uv[j][c]]]

\* The solver's result x as the vector Uc.
flatten(d, x) == [k \in 0..(d.dim * d.v_n - 1) |-> x[k % d.v_n][k \div d.v_n]]

\* build_linear_system(L) has left the system sys; the solver returns some
\* Uc, which is unflattened into uv.
solve_system(sys) ==
    /\ L' = sys.L
    /\ data' = sys.state
    /\ \E x \in SolverResults(data) :
          dest_res' = unflatten(data, dest_res, flatten(data, x))

\* data.energy * data.mesh_area, the cur_energy argument of the line search
line_search_argument(d) == Mul(d.energy, d.mesh_area)

\* The result of the line search stored without the division.
energy_of_result_unscaled(d, ret) == ret

\* data.energy = flip_avoiding_line_search(...) / data.mesh_area
energy_of_result(d, ret) == Div(ret, d.mesh_area)

\* solve_weighted_arap(dest_res), then old_energy and the argument of the
\* line search.
global_step ==
    /\ pc = "global"
    /\ solve_system(build_linear_system(data))
    /\ IF data.dim = 2
       THEN guess' = <<>> /\ cg_info' = "none"
       ELSE /\ \E g \in Garbage : guess' = warm_start(data, dest_res, g)
            /\ cg_info' \in {"Success", "NoConvergence"}
    /\ old_energy' = data.energy
    /\ ls_cur' = line_search_argument(data)
    /\ ls_ret' = Uninit
    /\ pc' = "search"
    /\ UNCHANGED <<n_pre, i_left, solved, ls_x, ls_e, contract_ok>>

\* The energy callback has returned r for the position x.
callback_returned(x, r) ==
    /\ data' = r.state
    /\ ls_x' = x
    /\ ls_e' = r.value

\* flip_avoiding_line_search calls the energy callback on a position.
line_search_eval ==
    /\ pc = "search"
    /\ \E x \in LineSearchTrials(data, dest_res) :
          callback_returned(x, compute_energy(data, x))
    /\ pc' = "return"
    /\ UNCHANGED <<n_pre, i_left, solved, dest_res, L, guess, cg_info, old_energy,
                   ls_cur, ls_ret, contract_ok>>

\* flip_avoiding_line_search returns: it has moved cur_v to the evaluated
\* position and returns its energy, or has left cur_v and returns
\* cur_energy.  slim_solve stores the result and goes round its loop.
line_search_return ==
    /\ pc = "return"
    /\ \E accept \in BOOLEAN :
          LET ret == IF accept THEN ls_e ELSE ls_cur
          IN  /\ ls_ret' = ret
              /\ data' = [data EXCEPT !.V_o = IF accept THEN ls_x ELSE @,
                                      !.energy = energy_of_result(data, ret)]
              /\ contract_ok' = (contract_ok /\ (accept => AllPositive(data)))
    /\ i_left' = i_left - 1
    /\ solved' = solved + 1
    /\ pc' = IF i_left = 1 THEN "idle" ELSE "iter"
    /\ NoLocals
    /\ UNCHANGED <<n_pre, old_energy, ls_cur>>

Next ==
    \/ slim_precompute
    \/ precompute_pre_calc
    \/ precompute_energy
    \/ \E iter_num \in 1..MaxIterNum : slim_solve(iter_num)
    \/ local_step
    \/ global_step
    \/ line_search_eval
    \/ line_search_return

Spec == Init /\ [][Next]_vars

----------------------------------------------------------------------------
(* Properties of the driver.                                               *)

\* C1: whenever the line search has returned an energy no greater than the
\* cur_energy it was given, the stored data.energy after the iteration is no
\* greater than old_energy, its value before the iteration.
EnergyNeverIncreases == Le(ls_ret, ls_cur) => Le(data.energy, old_energy)

\* An iteration has finished under that assumption and lowered the energy.
EnergyLowered ==
    /\ pc \in {"idle", "iter"}
    /\ solved >= 1
    /\ Le(ls_ret, ls_cur)
    /\ Lt(data.energy, old_energy)

\* Whether no element of the positions V_o of d is inverted or degenerate.
NoInvertedElement(d) == AllPositive([d EXCEPT !.Ji = compute_jacobians(d, d.V_o)])

\* C2: if the initial guess had no inverted or degenerate element and every
\* position the line search moved to had none, then V_o has none in any state
\* from the end of slim_precompute on, and the local step has run on singular
\* values that are all strictly positive.
NeverInverted ==
    contract_ok =>
        /\ pc \in {"idle", "iter", "global", "search", "return"}
        /\ NoInvertedElement(data)
        /\ pc = "global" => AllPositive(data)

\* A local step has run in a second iteration, after the line search moved
\* the positions, with the contract kept.
LocalStepAfterMove ==
    /\ contract_ok
    /\ pc = "global"
    /\ solved >= 1
    /\ data.V_o = PositionOf(data.V, data.F,
                             [e \in DOMAIN data.F |->
                                 IF data.dim = 2 THEN Jac2(Rot2, <<Two, Half>>)
                                 ELSE Jac3(Rot3, <<Two, One, Half>>)])

\* C3: once has_pre_calc is set, a call of pre_calc changes nothing: dim, v_n,
\* f_n, Dx, Dy, Dz, the per-element buffers and WGL_M, like every other field,
\* are as they were before the call.
PreCalcIsNoOp == [][(pc = "pre_calc" /\ data.has_pre_calc) => data' = data]_vars

\* pre_calc has returned from a second call, for a mesh whose vertex count is
\* not the one the first call stored.
SecondPreCalcReturned ==
    /\ pc = "energy"
    /\ n_pre = 2
    /\ data.has_pre_calc
    /\ data.v_n # data.v_num

\* C4: the statement that slim_precompute, given elements of neither 3 nor 4
\* vertices, stops with its error before it has written any field of the
\* SLIMData and before doublearea has run.
ErrorBeforeAnyWrite == pc = "aborted" => data = DefaultData

\* C5: the statement that the result of a conjugate-gradient solve that did
\* not converge is never handed to the line search as the candidate
\* positions; nothing in SLIMData and no return value could carry a flag.
UnconvergedNeverPassedOn == ~(pc = "search" /\ cg_info = "NoConvergence")

\* mat_W(p, q) == mat_W(q, p) for element i, as a comparison of doubles.
SymmetricAt(d, i, p, q) == EqR(W_of(d, p, q)[i], W_of(d, q, p)[i])

\* C6: the statement that after every local step W_12 = W_21 for every
\* element, and in 3-D W_13 = W_31 and W_23 = W_32 as well, here for local
\* steps on positions without an inverted or degenerate element.
WeightsSymmetric ==
    (pc = "global" /\ contract_ok) =>
        \A i \in 0..(data.f_n - 1) :
            /\ SymmetricAt(data, i, 0, 1)
            /\ data.dim = 3 => SymmetricAt(data, i, 0, 2) /\ SymmetricAt(data, i, 1, 2)

\* Whether every singular value of every row of Ji is 1.
Undeformed(d) ==
    \A i \in DOMAIN d.Ji :
        \A k \in 0..(d.dim - 1) : polar_svd(ji_of(d.Ji, i, d.dim), d.dim).sing[k] = One

\* The energy of one undeformed element of unit area.
RestEnergy(slim_energy, dim, exp_factor) ==
    CASE slim_energy \in {"ARAP", "LOG_ARAP"} -> Zero
      [] slim_energy = "SYMMETRIC_DIRICHLET" -> Int2R(2 * dim)
      [] slim_energy = "EXP_SYMMETRIC_DIRICHLET" -> Exp(Mul(exp_factor, Int2R(2 * dim)))
      [] slim_energy = "CONFORMAL" -> One
      [] slim_energy = "EXP_CONFORMAL" -> IF dim = 2 THEN Exp(exp_factor) ELSE Exp(One)

\* slim_precompute has evaluated the energy of an undeformed initial guess, no
\* soft constraints given.
EvaluatedAtRest ==
    /\ pc = "idle"
    /\ solved = 0
    /\ Rows(data.b) = 0
    /\ Undeformed(data)

\* C7 as it holds: for an undeformed configuration without soft constraints
\* compute_energy_with_jacobians returns 0 for ARAP and Log-ARAP only; for
\* the other kinds it returns the total area times the positive energy of
\* an undeformed element: 2 * dim for Symmetric-Dirichlet, 1 for Conformal,
\* and the exponential of exp_factor times these for the two Exp kinds (of 1
\* for 3-D Exp-Conformal).
EnergyAtRest ==
    EvaluatedAtRest =>
        /\ EqR(compute_energy_with_jacobians(data, data.Ji, data.M),
               Mul(data.mesh_area,
                   RestEnergy(data.slim_energy, data.dim, data.exp_factor)))
        /\ data.slim_energy \notin {"ARAP", "LOG_ARAP"} =>
               Lt(Zero, compute_energy_with_jacobians(data, data.Ji, data.M))

\* The energy of an undeformed tetrahedron has been evaluated for the
\* symmetric Dirichlet energy.
EvaluatedAtRestDirichlet ==
    /\ EvaluatedAtRest
    /\ data.slim_energy = "SYMMETRIC_DIRICHLET"
    /\ data.dim = 3

\* C7 as stated: the energy of an undeformed configuration without soft
\* constraints is 0 for every energy kind.
EnergyAtRestIsZero ==
    EvaluatedAtRest => EqR(compute_energy_with_jacobians(data, data.Ji, data.M), Zero)

\* Whether the guard of singular value k has fired for the singular values s.
GuardFires(s, k) == Lt(AbsR(Sub(s[k], One)), eps)

\* Whether the pass el over an element with singular values el.sing has its
\* reweighted singular values at 1 wherever the guard fires, and whether the
\* weights W stored for element i are ui * diag(w) * ui^T for these.
ForcedToOne(d, i, el) ==
    /\ \A k \in 0..(d.dim - 1) : GuardFires(el.sing, k) => el.m_sing_new[k] = One
    /\ \A p \in 0..(d.dim - 1) : \A q \in 0..(d.dim - 1) :
           W_of(d, p, q)[i] = mat_W(el.ui, el.m_sing_new, d.dim)[p][q]

\* C8: after the local step, for every element, every energy kind and both
\* dimensions, each reweighted singular value w_k with |s_k - 1| < 1e-8 is
\* exactly 1 in the diag(w) that W is built from, whatever the formula of the
\* energy gave.
GuardForcesOne ==
    pc = "global" =>
        \A i \in 0..(data.f_n - 1) :
            ForcedToOne(data, i,
                        local_step_element(data.slim_energy,
                                           ji_of(data.Ji, i, data.dim), data.dim,
                                           data.exp_factor))

\* Whether the formula of the energy gave something other than 1 for a
\* singular value of element i on which the guard fires.
GuardOverrides(d, i, el) ==
    \E k \in 0..(d.dim - 1) : GuardFires(el.sing, k) /\ el.raw[k] # One

\* A 3-D local step with the Exp-Conformal energy met a singular value of 1
\* for which the formula gave another value.
GuardFiredExpConformal3d ==
    /\ pc = "global"
    /\ data.dim = 3
    /\ data.slim_energy = "EXP_CONFORMAL"
    /\ GuardOverrides(data, 0,
                      local_step_element(data.slim_energy, ji_of(data.Ji, 0, data.dim),
                                         data.dim, data.exp_factor))

\* A step in which compute_energy runs: the callback of the line search, or
\* the evaluation that ends slim_precompute.
CallbackStep == pc = "search" /\ pc' = "return"
PrecomputeEnergyStep == pc = "energy" /\ pc' = "idle"

\* C9 as it holds: compute_energy overwrites the stored Jacobians Ji with
\* those of the positions it is given and leaves every other field,
\* the weights W and the rotations Ri among them, unchanged; a second call
\* with the same positions, on the state the first call left, returns the
\* same value.
EnergyWritesOnlyJi ==
    [][/\ CallbackStep =>
            /\ data' = [data EXCEPT !.Ji = compute_jacobians(data, ls_x')]
            /\ ls_e' = compute_energy(data', ls_x').value
       /\ PrecomputeEnergyStep =>
            /\ [data' EXCEPT !.energy = data.energy]
                    = [data EXCEPT !.Ji = compute_jacobians(data, data.V_o)]
            /\ data'.energy
                    = Div(compute_energy(data', data.V_o).value, data.mesh_area)]_vars

\* The callback has returned and Ji holds the Jacobians of the position it
\* was called on, which are not those of the current positions V_o.
CallbackOverwroteJi ==
    /\ pc = "return"
    /\ data.Ji = compute_jacobians(data, ls_x)
    /\ data.Ji # compute_jacobians(data, data.V_o)

\* C9 as stated: compute_energy leaves every field unchanged, Ji among them.
EnergyWritesNothing ==
    [][/\ CallbackStep => data' = data
       /\ PrecomputeEnergyStep => [data' EXCEPT !.energy = data.energy] = data]_vars

\* Whether M, proximal_p and soft_const_p of d are positive.
PositiveStrengths(d) ==
    /\ \A i \in DOMAIN d.M : Lt(Zero, d.M[i])
    /\ Lt(Zero, d.proximal_p)
    /\ Lt(Zero, d.soft_const_p)

\* C10: the statement that L is symmetric and positive definite when M,
\* proximal_p and soft_const_p are positive, here for systems built from
\* positions without an inverted or degenerate element, and with the
\* positive diagonal that a positive definite matrix has.
SystemSymmetricPositive ==
    (pc = "search" /\ contract_ok /\ PositiveStrengths(data)) =>
        /\ \A r \in DOMAIN L : \A c \in DOMAIN L : EqR(L[r][c], L[c][r])
        /\ \A r \in DOMAIN L : Lt(Zero, L[r][r])

----------------------------------------------------------------------------
(* Properties of the global step.                                          *)

\* The positions x flattened axis by axis, as uv_flat flattens V_o.
FlatOf(d, x) == [k \in 0..(d.dim * d.v_n - 1) |-> x[k % d.v_n][k \div d.v_n]]

\* Row r of A * x - f.
ResidualRow(A, x, f, r, n) == Sub(SumTo([c \in 0..(n - 1) |-> Mul(A[r][c], x[c])], n), f[r])

\* Entry (i, j) of W * (J - R) for the matrices of one element.
ProxyEntry(W, J, R, i, j, dim) ==
    SumTo([q \in 0..(dim - 1) |-> Mul(W[i][q], Sub(J[q][j], R[q][j]))], dim)

\* Whether the rows of A * x - f that belong to element e are the entries of
\* W_e * (J_e(x) - R_e), el being the pass of the local step over element e and
\* Jx the Jacobians of x.
RowsOfElement(d, A, f, x, Jx, e, el) ==
    \A i \in 0..(d.dim - 1) : \A j \in 0..(d.dim - 1) :
        ResidualRow(A, x, f, (i * d.dim + j) * d.f_n + e, d.dim * d.v_n)
            = ProxyEntry(el.mat_W, ji_of(Jx, e, d.dim), el.ri, i, j, d.dim)

\* Whether the layouts agree for the positions x.
LayoutsAgreeFor(d, A, f, x) ==
    \A e \in 0..(d.f_n - 1) :
        RowsOfElement(d, A, f, FlatOf(d, x), compute_jacobians(d, x), e,
                      local_step_element(d.slim_energy, ji_of(d.Ji, e, d.dim), d.dim,
                                         d.exp_factor))

\* The same for the positions of d and for the result res of the solve, and
\* the range of the rows and columns of the triplets of A.
LayoutsAgreeIn(d, res) ==
    /\ LayoutsAgreeFor(d, buildA(d), f_rhs(d), d.V_o)
    /\ LayoutsAgreeFor(d, buildA(d), f_rhs(d), res)
    /\ \A t \in IJV(d) :
           /\ t[1] \in 0..(d.dim * d.dim * d.f_n - 1)
           /\ t[2] \in 0..(d.dim * d.v_n - 1)

\* C11: after every global step, with the weights and local targets of the
\* local step stored, row
\* (i * dim + j) * f_n + e of A * x - f is entry (i, j) of W_e * (J_e(x) - R_e)
\* for the current positions and for the positions the solver returned, both
\* flattened axis by axis, in 2-D and in 3-D; and every triplet of A has its
\* row below dim * dim * f_n and its column below dim * v_n.
LayoutsAgree == pc = "search" => LayoutsAgreeIn(data, dest_res)

\* A system has been built in 3-D from a local target that is not a
\* symmetric matrix and from weights that are not a multiple of the identity.
LayoutExercised ==
    /\ pc = "search"
    /\ data.dim = 3
    /\ data.Ri[0][1] # data.Ri[0][3]
    /\ data.W_12[0] # Zero
    /\ IsFinite(data.W_12[0])

\* C12: the statement that the guess handed to the conjugate-gradient solver
\* holds, at index i * v_n + j for every axis i and vertex j, the position of
\* vertex j along axis i before the solve, every entry being assigned.
WarmStartIsPreviousIterate ==
    (pc = "search" /\ data.dim = 3) =>
        /\ DOMAIN guess = 0..(data.dim * data.v_n - 1)
        /\ \A i \in 0..(data.dim - 1) : \A j \in 0..(data.v_n - 1) :
               guess[i * data.v_n + j] = data.V_o[j][i]

\* What the constraints b, bc of d add at index k of the diagonal of L (with
\* 1 for the target) or of rhs (with the target coordinate).
PinContribution(d, k, with_bc) ==
    SumTo([n \in 0..(d.dim * Rows(d.b) - 1) |->
              IF (n % d.dim) * d.v_n + d.b[n \div d.dim] = k
              THEN Mul(d.soft_const_p,
                       IF with_bc THEN d.bc[n \div d.dim][n % d.dim] ELSE One)
              ELSE Zero],
          d.dim * Rows(d.b))

\* Whether Ls and rhs are the system L0, rhs0 with the contributions of the
\* constraints of d added, on the diagonal of L and in rhs only.
PinnedSystem(d, Ls, rhs, L0, rhs0) ==
    /\ \A r \in DOMAIN L0 : \A c \in DOMAIN L0 :
           Ls[r][c] = IF r = c THEN Add(L0[r][c], PinContribution(d, r, FALSE))
                      ELSE L0[r][c]
    /\ \A k \in DOMAIN rhs0 : rhs[k] = Add(rhs0[k], PinContribution(d, k, TRUE))

\* The system rebuilt from d without constraints, compared with Ls and rhs.
PinnedOverRebuilt(d, Ls, rhs, A) ==
    PinnedSystem(d, Ls, rhs, proximal_system(d, A), buildRhs(d, A))

\* C13: after every global step the system the solver is given is the rebuilt
\* unconstrained system plus, for each pinned vertex v of b and each axis d,
\* soft_p at the diagonal entry d * v_n + v of L and soft_p * bc at entry
\* d * v_n + v of rhs; nothing of an earlier iteration is left in it, and
\* no other entry differs from the unconstrained one.
SoftConstraintsAddedOnce ==
    pc = "search" => PinnedOverRebuilt(data, L, data.rhs, buildA(data))

\* A second iteration has built its system with a vertex pinned.
PinnedSecondIteration ==
    /\ pc = "search"
    /\ solved >= 1
    /\ Rows(data.b) > 0
    /\ Lt(Zero, data.soft_const_p)

----------------------------------------------------------------------------
(* Properties of the local step, by energy kind.                           *)

ConformalFamily == {"CONFORMAL", "EXP_CONFORMAL"}
ExponentialKinds == {"EXP_SYMMETRIC_DIRICHLET", "EXP_CONFORMAL"}

\* The singular value a conformal energy aims at: the geometric mean in 2-D,
\* sqrt(s1^2 + s3^2) / sqrt(2) in 3-D.
ConformalTarget(s, dim) ==
    IF dim = 2 THEN Sqrt(Mul(s[0], s[1])) ELSE closest_s_3d(s[0], s[2])

\* The target singular values of a kind: 1 on every axis for the rigidity
\* energies, the conformal target on every axis for the conformal family.
TargetSingularValues(slim_energy, s, dim) ==
    [k \in 0..(dim - 1) |->
        IF slim_energy \in ConformalFamily THEN ConformalTarget(s, dim) ELSE One]

\* U * diag(target) * V^T for the decomposition svd.
ScaledProjection(svd, target, dim) ==
    MatMul(MatMul(svd.ui, AsDiagonal(target, dim), dim), Transpose(svd.vi, dim), dim)

\* Whether row e of d.Ri holds the matrix R.
TargetStored(d, e, R) ==
    \A c \in 0..(d.dim * d.dim - 1) : d.Ri[e][c] = R[c % d.dim][c \div d.dim]

\* Whether row e of d.Ri holds the projection of the decomposition svd
\* with the target singular values of the energy of d.
TargetOfKindStored(d, e, svd) ==
    TargetStored(d, e,
                 ScaledProjection(svd,
                                  TargetSingularValues(d.slim_energy, svd.sing, d.dim),
                                  d.dim))

\* C14: the statement that after the local step the stored R of every
\* element is U * V^T for ARAP, Symmetric-Dirichlet, Log-ARAP and
\* Exp-Symmetric-Dirichlet, and U * diag(target) * V^T with the conformal
\* target for Conformal and for Exp-Conformal, in 2-D and in 3-D.
LocalTargetAsStated ==
    pc = "global" =>
        \A e \in DOMAIN data.Ji :
            TargetOfKindStored(data, e, polar_svd(ji_of(data.Ji, e, data.dim), data.dim))

\* The base kind of an exponential kind.
BaseKind(slim_energy) ==
    IF slim_energy = "EXP_SYMMETRIC_DIRICHLET" THEN "SYMMETRIC_DIRICHLET"
    ELSE "CONFORMAL"

\* g_k of the base kinds: the derivative of the energy in s_k.
BaseGradient(base, s, k, dim) ==
    IF base = "SYMMETRIC_DIRICHLET" THEN g_symmetric_dirichlet(s[k])
    ELSE IF dim = 2
         THEN Sub(Inv(Mul(Two, s[1 - k])), Div(s[1 - k], Mul(Two, Sq(s[k]))))
         ELSE g_conformal_3d(s[k], s[(k + 1) % 3], s[(k + 2) % 3],
                             Mul(Int2R(9), Pow53(Mul(Mul(s[0], s[1]), s[2]))))

\* w_k of an exponential kind as stated: the base kind's g_k times
\* exp(exp_f * E_base) * exp_f, over twice s_k less the base kind's target.
StatedWeight(slim_energy, s, k, dim, exp_f) ==
    sing_new(Mul(BaseGradient(BaseKind(slim_energy), s, k, dim),
                 Mul(Exp(Mul(exp_f, element_energy(BaseKind(slim_energy), s, dim, One))),
                     exp_f)),
             s[k], TargetSingularValues(BaseKind(slim_energy), s, dim)[k])

\* Whether the weights stored for element e of d are those of the decomposition
\* svd with the stated w_k, guarded.
StatedWeightsStored(d, e, svd) ==
    \A p, q \in 0..(d.dim - 1) :
        W_of(d, p, q)[e] =
            mat_W(svd.ui,
                  guarded([k \in 0..(d.dim - 1) |->
                              StatedWeight(d.slim_energy, svd.sing, k, d.dim, d.exp_factor)],
                          svd.sing, d.dim),
                  d.dim)[p][q]

\* C15: the statement that for Exp-Symmetric-Dirichlet and Exp-Conformal,
\* in 2-D and in 3-D, the weights of the local step come from the base kind's
\* g_k times exp(exp_factor * E_base) * exp_factor over a denominator with
\* the base kind's target singular value.
ExponentialWeightsAsStated ==
    (pc = "global" /\ data.slim_energy \in ExponentialKinds) =>
        \A e \in DOMAIN data.Ji :
            StatedWeightsStored(data, e, polar_svd(ji_of(data.Ji, e, data.dim), data.dim))

\* The same for every exponential kind and dimension but Exp-Conformal in 2-D.
ExponentialWeightsElsewhere ==
    (data.slim_energy = "EXP_CONFORMAL" /\ data.dim = 2) \/ ExponentialWeightsAsStated

\* The stored R for every kind and dimension but Exp-Conformal in 2-D.
LocalTargetElsewhere ==
    (data.slim_energy = "EXP_CONFORMAL" /\ data.dim = 2) \/ LocalTargetAsStated

----------------------------------------------------------------------------
(* The exponential energies with a sharpness factor of the caller's.       *)
(* slim_precompute resets data.exp_factor to 1.0, so a caller who wants    *)
(* another factor assigns the field after slim_precompute has returned.    *)

\* The factors the caller assigns.
CallerFactors == {Half, Two}

\* The first calls with an exponential energy and no constraints.
ExponentialArguments ==
    {a \in FirstArguments : a.slim_energy \in ExponentialKinds /\ a.b = <<>>}

\* SLIMData when slim_precompute has returned from the call with arguments a.
precomputed(a) ==
    store_energy(compute_energy(pre_calc(precompute_assignments(DefaultData, a)),
                                a.V_init))

\* slim_precompute has returned and the caller has assigned data.exp_factor.
InitWithFactor ==
    /\ \E a \in ExponentialArguments : \E f \in CallerFactors :
          data = [precomputed(a) EXCEPT !.exp_factor = f]
    /\ pc = "idle"
    /\ n_pre = 1
    /\ i_left = 0
    /\ solved = 0
    /\ dest_res = <<>>
    /\ L = <<>>
    /\ guess = <<>>
    /\ cg_info = "none"
    /\ old_energy = Uninit
    /\ ls_cur = Uninit
    /\ ls_x = <<>>
    /\ ls_e = Zero
    /\ ls_ret = Uninit
    /\ contract_ok = AllPositive(data)

SpecWithFactor == InitWithFactor /\ [][Next]_vars

\* The energy as stated for the Jacobians Ji: the sum over the elements of
\* the area times exp(exp_factor * E_base), and the energy of the constraints.
StatedExponentialEnergy(d, Ji, x) ==
    Add(SumTo([i \in 0..(d.f_n - 1) |->
                  Mul(d.M[i],
                      Exp(Mul(d.exp_factor,
                              element_energy(BaseKind(d.slim_energy),
                                             polar_svd(ji_of(Ji, i, d.dim), d.dim).sing,
                                             d.dim, One))))],
              d.f_n),
        compute_soft_const_energy(d, x))

\* C16: the statement that for Exp-Symmetric-Dirichlet and Exp-Conformal,
\* in 2-D and in 3-D, the evaluator's value of an element is
\* exp(exp_factor * E_base), with the exp_factor and the E_base of the
\* exponent of the local step; checked on the value the line search's
\* callback returns, for factors other than 1.
EvaluatorUsesFactor ==
    (pc = "return" /\ data.slim_energy \in ExponentialKinds) =>
        ls_e = StatedExponentialEnergy(data, data.Ji, ls_x)

\* The same for every exponential kind and dimension but Exp-Conformal in 3-D.
EvaluatorUsesFactorElsewhere ==
    (data.slim_energy = "EXP_CONFORMAL" /\ data.dim = 3) \/ EvaluatorUsesFactor

----------------------------------------------------------------------------
(* Properties of the guards and of the cached layout.                      *)

\* Whether element e of d has strictly positive singular values.
ValidElement(d, e) ==
    \A k \in 0..(d.dim - 1) :
        Lt(Zero, polar_svd(ji_of(d.Ji, e, d.dim), d.dim).sing[k])

\* Whether no weight stored for element e of d is NaN.
WeightsAreNumbers(d, e) ==
    \A p, q \in 0..(d.dim - 1) : ~IsNaN(W_of(d, p, q)[e])

\* C17: the statement that, with the guard at |s_k - 1| < 1e-8, no
\* denominator 2 * (s_k - target_k) is zero where the guard has not fired,
\* so that after the local step, for every energy kind and both dimensions,
\* the weights W of an element with strictly positive singular values hold
\* no NaN.
GuardAvoidsNaN ==
    pc = "global" =>
        \A e \in DOMAIN data.Ji : ValidElement(data, e) => WeightsAreNumbers(data, e)

\* The same for the cases of the switch whose target is 1: every one but
\* Conformal, and Exp-Conformal in 3-D.
GuardAvoidsNaNElsewhere ==
    \/ data.slim_energy = "CONFORMAL"
    \/ data.slim_energy = "EXP_CONFORMAL" /\ data.dim = 3
    \/ GuardAvoidsNaN

\* dim as the arity of F gives it: 2 for triangles, 3 for tetrahedra.
DimOfMesh(d) == IF Cols(d.F) = 3 THEN 2 ELSE 3

\* Whether the sparse operator D has f rows and v columns.
OperatorSized(D, f, v) == D.rows = f /\ D.cols = v

\* Whether the weight vectors of d in use with dim have f entries each.
WeightsSized(d, dim, f) ==
    \A p, q \in 0..(dim - 1) : Rows(W_of(d, p, q)) = f

\* Whether the buffers of d have the sizes of a mesh of v vertices and f
\* elements in dimension dim.
BuffersSized(d, dim, v, f) ==
    /\ Rows(d.Ji) = f /\ Cols(d.Ji) = dim * dim
    /\ Rows(d.Ri) = f /\ Cols(d.Ri) = dim * dim
    /\ WeightsSized(d, dim, f)
    /\ Rows(d.rhs) = dim * v
    /\ Rows(d.WGL_M) = dim * dim * f
    /\ OperatorSized(d.Dx, f, v)
    /\ OperatorSized(d.Dy, f, v)
    /\ dim = 3 => OperatorSized(d.Dz, f, v)

\* Whether the cached layout of d is that of the mesh in d.V and d.F.
LayoutMatchesMesh(d) ==
    /\ d.v_num = Rows(d.V)
    /\ d.f_num = Rows(d.F)
    /\ d.v_n = d.v_num
    /\ d.f_n = d.f_num
    /\ d.dim = DimOfMesh(d)
    /\ BuffersSized(d, DimOfMesh(d), Rows(d.V), Rows(d.F))

\* C18: the statement that whenever pre_calc has returned within
\* slim_precompute, on a first or a later call on the same SLIMData, with
\* triangles or tetrahedra, v_n = v_num, f_n = f_num, dim is that of F's
\* arity, and Ji, Ri, the weights, rhs, WGL_M and the gradient operators have
\* the sizes of the mesh in data.V and data.F.
CachedLayoutIsCurrent ==
    pc \in {"energy", "idle"} => LayoutMatchesMesh(data)

\* The same for the first call on a SLIMData.
CachedLayoutOfFirstCall ==
    n_pre >= 2 \/ CachedLayoutIsCurrent

====
